---------------------------- MODULE Spec2Model ----------------------------
(***************************************************************************)
(* A model of the metadata filter operator of the query path               *)
(* (rust/worker/src/execution/operators/filter.rs): the signed-bitmap      *)
(* algebra, the log overlay index (MetadataLogReader), the two-variant     *)
(* MetadataProvider, the where-clause evaluator and FilterOperator::run.   *)
(***************************************************************************)
EXTENDS Integers, Sequences, FiniteSets, TLC

VARIABLES
    pc,            \* position of the operation under way
    logs,          \* Chunk<MaterializedLogRecord>: the materialized log
    segment,       \* the on-disk segment behind FetchSegmentOutput
    query_ids,     \* FilterOperator.query_ids  (Option<Vec<String>>)
    where_clause,  \* FilterOperator.where_clause (Option<Where>)
    reader,        \* the MetadataLogReader built from logs
    locals,        \* the local variables of run that outlive a step
    output,        \* the value an operation returned
    failed,        \* collaborator calls that returned an error during run
    args           \* the arguments of the operation applied last

vars == <<pc, logs, segment, query_ids, where_clause, reader, locals, output,
          failed, args>>

---------------------------------------------------------------------------
(* Bounds of the model *)

\* offset ids are 0 .. MaxOffsetId
MaxOffsetId == 2
\* a chunk holds at most MaxLogLen materialized records
MaxLogLen == 2

\* a boolean composition node holds at most MaxChildren children
MaxChildren == 3
\* a set comparison holds at most MaxListLen values
MaxListLen == 2

OffsetIds == 0 .. MaxOffsetId
Bitmaps == SUBSET OffsetIds

None == "None"

---------------------------------------------------------------------------
(* SignedRoaringBitmap (chroma_types): Include(S) | Exclude(S) *)

Include(S) == [kind |-> "Include", set |-> S]
Exclude(S) == [kind |-> "Exclude", set |-> S]

SignedRoaringBitmap == [kind : {"Include", "Exclude"}, set : Bitmaps]

empty == Include({})
full == Exclude({})

\* x is a member of the set a signed bitmap denotes
Member(x, a) == IF a.kind = "Include" THEN x \in a.set ELSE x \notin a.set

\* a wrong table: Include(A) AND Exclude(B) keeps A whole
BitAnd_keepsLeft(a, b) ==
    CASE a.kind = "Include" /\ b.kind = "Include" -> Include(a.set \cap b.set)
      [] a.kind = "Include" /\ b.kind = "Exclude" -> Include(a.set)
      [] a.kind = "Exclude" /\ b.kind = "Include" -> Include(b.set \ a.set)
      [] a.kind = "Exclude" /\ b.kind = "Exclude" -> Exclude(a.set \cup b.set)

BitAnd(a, b) ==
    CASE a.kind = "Include" /\ b.kind = "Include" -> Include(a.set \cap b.set)
      [] a.kind = "Include" /\ b.kind = "Exclude" -> Include(a.set \ b.set)
      [] a.kind = "Exclude" /\ b.kind = "Include" -> Include(b.set \ a.set)
      [] a.kind = "Exclude" /\ b.kind = "Exclude" -> Exclude(a.set \cup b.set)

BitOr(a, b) ==
    CASE a.kind = "Include" /\ b.kind = "Include" -> Include(a.set \cup b.set)
      [] a.kind = "Include" /\ b.kind = "Exclude" -> Exclude(b.set \ a.set)
      [] a.kind = "Exclude" /\ b.kind = "Include" -> Exclude(a.set \ b.set)
      [] a.kind = "Exclude" /\ b.kind = "Exclude" -> Exclude(a.set \cap b.set)

---------------------------------------------------------------------------
(* Option<T> is a sequence of at most one element; Result<T, E> is tagged *)

NoneOpt == <<>>
Some(x) == <<x>>
IsSome(o) == Len(o) = 1
Unwrap(o) == o[1]

Ok(x) == [tag |-> "Ok", val |-> x]
Err(e) == [tag |-> "Err", err |-> e]
\* unreachable!() was reached
Panic == [tag |-> "Panic"]
IsOk(r) == r.tag = "Ok"

---------------------------------------------------------------------------
(* MetadataValue (chroma_types): Bool | Int | Float | Str.  A string is   *)
(* the sequence of its characters, a character a number.  An i64 is the    *)
(* sequence <<h, m, l>> of its high 32 bits (signed) and its two low 16    *)
(* bit halves (unsigned): the integer h * 2^32 + m * 2^16 + l.  A float is *)
(* a whole number f, held as <<f>>; a boolean is <<0>> or <<1>>.           *)

MetadataValueTypes == {"Bool", "Int", "Float", "Str"}

Bool(b) == [type |-> "Bool", val |-> <<IF b THEN 1 ELSE 0>>]
Int64(h, m, l) == [type |-> "Int", val |-> <<h, m, l>>]
\* the i64 of a small natural number
IntOf(n) == Int64(0, 0, n)
\* the i64 -1: all bits set
IntMinusOne == Int64(-1, 65535, 65535)
Float(f) == [type |-> "Float", val |-> <<f>>]
Str(s) == [type |-> "Str", val |-> s]

\* lexicographic order: of strings (str::cmp), and of integers by their
\* parts, the most significant first
RECURSIVE LexLess(_, _)
LexLess(s, t) ==
    IF t = <<>> THEN FALSE
    ELSE IF s = <<>> THEN TRUE
    ELSE IF s[1] # t[1] THEN s[1] < t[1]
    ELSE LexLess(Tail(s), Tail(t))

\* the order of two values of one variant
SameTypeLess(v, w) ==
    CASE v.type = "Bool" -> v.val[1] < w.val[1]
      [] v.type = "Int" -> LexLess(v.val, w.val)
      [] v.type = "Float" -> v.val[1] < w.val[1]
      [] v.type = "Str" -> LexLess(v.val, w.val)

\* position of the variant in the enum
TypeOrder(v) ==
    CASE v.type = "Bool" -> 0
      [] v.type = "Int" -> 1
      [] v.type = "Float" -> 2
      [] v.type = "Str" -> 3

\* Ord for MetadataValue, the order of the BTreeMap keys: total, values of
\* different variants are ordered by variant
ValueLess(v, w) ==
    IF v.type = w.type THEN SameTypeLess(v, w) ELSE TypeOrder(v) < TypeOrder(w)

ValueLessEq(v, w) == v = w \/ ValueLess(v, w)

PrimitiveOperators ==
    {"Equal", "NotEqual", "GreaterThan", "GreaterThanOrEqual", "LessThan",
     "LessThanOrEqual"}

\* the operators a provider is meant to receive
ProviderOperators == PrimitiveOperators \ {"NotEqual"}

---------------------------------------------------------------------------
(* MaterializedLogRecord: what MetadataLogReader reads of it *)

MaterializedLogOperations == {"Initial", "AddNew", "UpdateExisting", "DeleteExisting"}

LogRecord(id, op, user, md, doc) ==
    [offset_id |-> id, final_operation |-> op, user_id |-> user,
     metadata |-> md, document |-> doc]

EmptyMap == [x \in {} |-> {}]

MapPut(m, k, v) == [x \in DOMAIN m \cup {k} |-> IF x = k THEN v ELSE m[x]]

MapGet(m, k, default) == IF k \in DOMAIN m THEN m[k] ELSE default

---------------------------------------------------------------------------
(* MetadataLogReader *)

EmptyReader ==
    [compact_metadata |-> EmptyMap, document |-> EmptyMap,
     updated_offset_ids |-> {}, user_id_to_offset_id |-> EmptyMap]

\* a deleted record is skipped before the touched set is updated
NewStep_skipsDeleted(r, log) ==
    LET md == log.metadata
    IN  IF log.final_operation = "DeleteExisting" THEN r
        ELSE [updated_offset_ids |->
                IF log.final_operation \notin {"Initial", "AddNew"}
                THEN r.updated_offset_ids \cup {log.offset_id}
                ELSE r.updated_offset_ids,
              user_id_to_offset_id |->
                MapPut(r.user_id_to_offset_id, log.user_id, log.offset_id),
              compact_metadata |->
                [k \in DOMAIN r.compact_metadata \cup DOMAIN md |->
                    IF k \in DOMAIN md
                    THEN LET bucket == MapGet(r.compact_metadata, k, EmptyMap)
                         IN  MapPut(bucket, md[k],
                                    MapGet(bucket, md[k], {}) \cup {log.offset_id})
                    ELSE r.compact_metadata[k]],
              document |->
                IF ~IsSome(log.document) THEN r.document
                ELSE MapPut(r.document, log.offset_id, Unwrap(log.document))]

\* a deleted record is indexed like any other
NewStep_indexesDeleted(r, log) ==
    LET md == log.metadata
    IN  [updated_offset_ids |->
            IF log.final_operation \notin {"Initial", "AddNew"}
            THEN r.updated_offset_ids \cup {log.offset_id}
            ELSE r.updated_offset_ids,
         user_id_to_offset_id |->
            MapPut(r.user_id_to_offset_id, log.user_id, log.offset_id),
         compact_metadata |->
            [k \in DOMAIN r.compact_metadata \cup DOMAIN md |->
                IF k \in DOMAIN md
                THEN LET bucket == MapGet(r.compact_metadata, k, EmptyMap)
                     IN  MapPut(bucket, md[k],
                                MapGet(bucket, md[k], {}) \cup {log.offset_id})
                ELSE r.compact_metadata[k]],
         document |->
            IF ~IsSome(log.document) THEN r.document
            ELSE MapPut(r.document, log.offset_id, Unwrap(log.document))]

\* a bucket keeps only the id inserted last
NewStep_replacesBucket(r, log) ==
    LET deleted == log.final_operation = "DeleteExisting"
        md == log.metadata
    IN  [updated_offset_ids |->
            IF log.final_operation \notin {"Initial", "AddNew"}
            THEN r.updated_offset_ids \cup {log.offset_id}
            ELSE r.updated_offset_ids,
         user_id_to_offset_id |->
            IF deleted THEN r.user_id_to_offset_id
            ELSE MapPut(r.user_id_to_offset_id, log.user_id, log.offset_id),
         compact_metadata |->
            IF deleted THEN r.compact_metadata
            ELSE [k \in DOMAIN r.compact_metadata \cup DOMAIN md |->
                    IF k \in DOMAIN md
                    THEN LET bucket == MapGet(r.compact_metadata, k, EmptyMap)
                         IN  MapPut(bucket, md[k], {log.offset_id})
                    ELSE r.compact_metadata[k]],
         document |->
            IF deleted \/ ~IsSome(log.document) THEN r.document
            ELSE MapPut(r.document, log.offset_id, Unwrap(log.document))]

\* one iteration of the loop of MetadataLogReader::new
NewStep(r, log) ==
    LET deleted == log.final_operation = "DeleteExisting"
        md == log.metadata
    IN  [updated_offset_ids |->
            IF log.final_operation \notin {"Initial", "AddNew"}
            THEN r.updated_offset_ids \cup {log.offset_id}
            ELSE r.updated_offset_ids,
         user_id_to_offset_id |->
            IF deleted THEN r.user_id_to_offset_id
            ELSE MapPut(r.user_id_to_offset_id, log.user_id, log.offset_id),
         compact_metadata |->
            IF deleted THEN r.compact_metadata
            ELSE [k \in DOMAIN r.compact_metadata \cup DOMAIN md |->
                    IF k \in DOMAIN md
                    THEN LET bucket == MapGet(r.compact_metadata, k, EmptyMap)
                         IN  MapPut(bucket, md[k],
                                    MapGet(bucket, md[k], {}) \cup {log.offset_id})
                    ELSE r.compact_metadata[k]],
         document |->
            IF deleted \/ ~IsSome(log.document) THEN r.document
            ELSE MapPut(r.document, log.offset_id, Unwrap(log.document))]

RECURSIVE NewFrom(_, _)
NewFrom(r, chunk) ==
    IF chunk = <<>> THEN r ELSE NewFrom(NewStep(r, Head(chunk)), Tail(chunk))

\* MetadataLogReader::new
MetadataLogReader_new(chunk) == NewFrom(EmptyReader, chunk)

\* does a stored value w lie in the range the operator makes of val
InBounds(w, val, op) ==
    CASE op = "Equal" -> ValueLessEq(val, w) /\ ValueLessEq(w, val)
      [] op = "GreaterThan" -> ValueLess(val, w)
      [] op = "GreaterThanOrEqual" -> ValueLessEq(val, w)
      [] op = "LessThan" -> ValueLess(w, val)
      [] op = "LessThanOrEqual" -> ValueLessEq(w, val)

\* MetadataLogReader::get
MetadataLogReader_get(r, key, val, op) ==
    IF key \in DOMAIN r.compact_metadata
    THEN IF op = "NotEqual" THEN Panic
         ELSE LET m == r.compact_metadata[key]
              IN  Ok(UNION {m[w] : w \in {x \in DOMAIN m : InBounds(x, val, op)}})
    ELSE Ok({})

\* MetadataLogReader::search_user_ids
search_user_ids(r, user_ids) ==
    {r.user_id_to_offset_id[user_ids[i]] :
        i \in {j \in 1 .. Len(user_ids) : user_ids[j] \in DOMAIN r.user_id_to_offset_id}}

\* str::contains
Contains(document, query) ==
    \E i \in 0 .. (Len(document) - Len(query)) :
        SubSeq(document, i + 1, i + Len(query)) = query

---------------------------------------------------------------------------
(* MetadataSegmentReader: the on-disk readers, one metadata index per      *)
(* value type and a full-text index, each present or absent.  An index     *)
(* maps a key to the ids stored under each index key (bool, u32, f32 or    *)
(* string); the full-text index is read through search only.               *)

TwoPow24 == 16777216

\* `i as u32`: the low 32 bits of the two's complement i64, as <<m, l>>
I64AsU32(i) == <<i[2], i[3]>>

\* `f as f32` on the whole numbers up to 2^25: 24 bits of mantissa, ties to even
F64AsF32(f) ==
    LET m == IF f < 0 THEN -f ELSE f
        r == IF m <= TwoPow24 THEN m
             ELSE IF m % 2 = 0 THEN m
             ELSE IF ((m - 1) \div 2) % 2 = 0 THEN m - 1 ELSE m + 1
    IN  IF f < 0 THEN -r ELSE r

\* the index key a value is looked up by
IndexKey(val) ==
    CASE val.type = "Bool" -> val
      [] val.type = "Int" -> [type |-> "Int", val |-> I64AsU32(val.val)]
      [] val.type = "Float" -> Float(F64AsF32(val.val[1]))
      [] val.type = "Str" -> val

\* get / gt / gte / lt / lte of one on-disk metadata index
IndexLookup(index, key, kw, op) ==
    LET m == MapGet(index, key, EmptyMap)
    IN  UNION {m[w] : w \in
            {x \in DOMAIN m :
                CASE op = "Equal" -> x = kw
                  [] op = "GreaterThan" -> SameTypeLess(kw, x)
                  [] op = "GreaterThanOrEqual" -> x = kw \/ SameTypeLess(kw, x)
                  [] op = "LessThan" -> SameTypeLess(x, kw)
                  [] op = "LessThanOrEqual" -> x = kw \/ SameTypeLess(x, kw)}}

\* FullTextIndexReader::search: the ids whose document matches the query
FullTextSearch(index, query) ==
    {id \in DOMAIN index : Contains(index[id], query)}

---------------------------------------------------------------------------
(* MetadataProvider: CompactData(reader) | Log(reader).  faults is the set *)
(* of on-disk readers whose lookups fail during this call.                 *)

from_metadata_segment_reader(r, faults) ==
    [variant |-> "CompactData", reader |-> r, faults |-> faults]

from_metadata_log_reader(r) == [variant |-> "Log", reader |-> r]

\* MetadataProvider::filter_by_document
filter_by_document(provider, query) ==
    IF provider.variant = "CompactData"
    THEN IF IsSome(provider.reader.full_text_index_reader)
         THEN IF "FullText" \in provider.faults
              THEN Err("Index")
              ELSE Ok(FullTextSearch(Unwrap(provider.reader.full_text_index_reader),
                                     query))
         ELSE Ok({})
    ELSE Ok({id \in DOMAIN provider.reader.document :
                Contains(provider.reader.document[id], query)})

\* MetadataProvider::filter_by_metadata
filter_by_metadata(provider, key, val, op) ==
    IF provider.variant = "CompactData"
    THEN LET metadata_index_reader == provider.reader.metadata_index_reader[val.type]
             kw == IndexKey(val)
         IN  IF IsSome(metadata_index_reader)
             THEN IF op = "NotEqual" THEN Panic
                  ELSE IF val.type \in provider.faults THEN Err("Index")
                  ELSE Ok(IndexLookup(Unwrap(metadata_index_reader), key, kw, op))
             ELSE Ok({})
    ELSE MetadataLogReader_get(provider.reader, key, val, op)

---------------------------------------------------------------------------
(* The where-clause tree (chroma_types::Where) and its evaluation.  An     *)
(* evaluation yields the Result and the lookups the provider received.     *)

Primitive(key, op, val) == [node |-> "Primitive", key |-> key, op |-> op, val |-> val]
SetComparison(key, op, vals) == [node |-> "Set", key |-> key, op |-> op, vals |-> vals]
DocumentComparison(op, document) ==
    [node |-> "Document", op |-> op, document |-> document]
Children(op, children) == [node |-> "Children", op |-> op, children |-> children]

Call(key, val, op) == [key |-> key, val |-> val, op |-> op]

Evaluation(res, cs) == [res |-> res, calls |-> cs]

\* Iterator::fold(acc, BitAnd::bitand)
RECURSIVE fold_bitand(_, _)
fold_bitand(acc, s) ==
    IF s = <<>> THEN acc ELSE fold_bitand(BitAnd(acc, Head(s)), Tail(s))

\* Iterator::fold(acc, BitOr::bitor)
RECURSIVE fold_bitor(_, _)
fold_bitor(acc, s) ==
    IF s = <<>> THEN acc ELSE fold_bitor(BitOr(acc, Head(s)), Tail(s))

\* the comparison operator is handed to the provider as it is
Primitive_eval_passesOperator(provider, w) ==
    LET r == filter_by_metadata(provider, w.key, w.val, w.op)
    IN  Evaluation(
            IF ~IsOk(r) THEN r
            ELSE IF w.op = "NotEqual" THEN Ok(Exclude(r.val)) ELSE Ok(Include(r.val)),
            {Call(w.key, w.val, w.op)})

\* DirectWhereComparison::eval, WhereComparison::Primitive
Primitive_eval(provider, w) ==
    IF w.op = "NotEqual"
    THEN LET r == filter_by_metadata(provider, w.key, w.val, "Equal")
         IN  Evaluation(IF IsOk(r) THEN Ok(Exclude(r.val)) ELSE r,
                        {Call(w.key, w.val, "Equal")})
    ELSE LET r == filter_by_metadata(provider, w.key, w.val, w.op)
         IN  Evaluation(IF IsOk(r) THEN Ok(Include(r.val)) ELSE r,
                        {Call(w.key, w.val, w.op)})

\* the loop over the candidate values: stops at the first lookup that fails
RECURSIVE SetLookups(_, _, _, _)
SetLookups(provider, key, op, vals) ==
    IF vals = <<>> THEN Evaluation(Ok(<<>>), {})
    ELSE LET r == filter_by_metadata(provider, key, Head(vals), "Equal")
             c == {Call(key, Head(vals), "Equal")}
         IN  IF ~IsOk(r) THEN Evaluation(r, c)
             ELSE LET rest == SetLookups(provider, key, op, Tail(vals))
                      one == IF op = "In" THEN Include(r.val) ELSE Exclude(r.val)
                  IN  Evaluation(
                          IF IsOk(rest.res) THEN Ok(<<one>> \o rest.res.val)
                          ELSE rest.res,
                          c \cup rest.calls)

\* NotIn folds from empty() like In
Set_eval_notInFromEmpty(provider, w) ==
    LET child_evaluations == SetLookups(provider, w.key, w.op, w.vals)
    IN  IF ~IsOk(child_evaluations.res) THEN child_evaluations
        ELSE Evaluation(
                 Ok(IF w.op = "In"
                    THEN fold_bitor(empty, child_evaluations.res.val)
                    ELSE fold_bitand(empty, child_evaluations.res.val)),
                 child_evaluations.calls)

\* DirectWhereComparison::eval, WhereComparison::Set
Set_eval(provider, w) ==
    LET child_evaluations == SetLookups(provider, w.key, w.op, w.vals)
    IN  IF ~IsOk(child_evaluations.res) THEN child_evaluations
        ELSE Evaluation(
                 Ok(IF w.op = "In"
                    THEN fold_bitor(empty, child_evaluations.res.val)
                    ELSE fold_bitand(full, child_evaluations.res.val)),
                 child_evaluations.calls)

\* DirectDocumentComparison::eval
Document_eval(provider, w) ==
    LET contain == filter_by_document(provider, w.document)
    IN  Evaluation(
            IF ~IsOk(contain) THEN contain
            ELSE IF w.op = "Contains" THEN Ok(Include(contain.val))
            ELSE Ok(Exclude(contain.val)),
            {})

\* the fold keeps only the child evaluated last
Children_fold_keepsLast(op, child_evaluations) ==
    IF child_evaluations # <<>> THEN child_evaluations[Len(child_evaluations)]
    ELSE IF op = "And" THEN full ELSE empty

\* the two folds start from each other's identity
Children_fold_swapsIdentities(op, child_evaluations) ==
    IF op = "And"
    THEN fold_bitand(empty, child_evaluations)
    ELSE fold_bitor(full, child_evaluations)

\* WhereChildren::eval, the fold of the children's evaluations
Children_fold(op, child_evaluations) ==
    IF op = "And"
    THEN fold_bitand(full, child_evaluations)
    ELSE fold_bitor(empty, child_evaluations)

RECURSIVE Where_eval(_, _)
RECURSIVE ChildEvaluations(_, _)

\* the loop over the children: stops at the first child that fails
ChildEvaluations(provider, children) ==
    IF children = <<>> THEN Evaluation(Ok(<<>>), {})
    ELSE LET first == Where_eval(provider, Head(children))
         IN  IF ~IsOk(first.res) THEN first
             ELSE LET rest == ChildEvaluations(provider, Tail(children))
                  IN  Evaluation(
                          IF IsOk(rest.res) THEN Ok(<<first.res.val>> \o rest.res.val)
                          ELSE rest.res,
                          first.calls \cup rest.calls)

\* WhereChildren::eval
Children_eval(provider, w) ==
    LET child_evaluations == ChildEvaluations(provider, w.children)
    IN  IF ~IsOk(child_evaluations.res) THEN child_evaluations
        ELSE Evaluation(Ok(Children_fold(w.op, child_evaluations.res.val)),
                        child_evaluations.calls)

\* Where::eval
Where_eval(provider, w) ==
    CASE w.node = "Primitive" -> Primitive_eval(provider, w)
      [] w.node = "Set" -> Set_eval(provider, w)
      [] w.node = "Document" -> Document_eval(provider, w)
      [] w.node = "Children" -> Children_eval(provider, w)

---------------------------------------------------------------------------
(* The inputs the specifications draw from *)

\* a user id is a one-character string; record i of a segment generation
\* is first written under user id UserIdOf(i)
UserIdOf(id) == <<id + 1>>
UserIds == {UserIdOf(id) : id \in OffsetIds}

StrA == <<1>>
StrB == <<2>>
StrAB == <<1, 2>>

\* a metadata map with one key
OneKey(key, val) == [k \in {key} |-> val]

\* sequences of length at most n over S
SeqsUpTo(S, n) == UNION {[1 .. m -> S] : m \in 0 .. n}

Injective(s, F(_)) == \A i, j \in 1 .. Len(s) : F(s[i]) = F(s[j]) => i = j

OffsetOf(log) == log.offset_id
UserOf(log) == log.user_id

\* the chunks over a set of records: a materialized chunk holds one record
\* per user id and per offset id
Chunks(records) ==
    {c \in SeqsUpTo(records, MaxLogLen) : Injective(c, OffsetOf) /\ Injective(c, UserOf)}

\* the chunks whose records are in the order of their offset ids
OrderedChunks(records) ==
    {c \in Chunks(records) :
        \A i, j \in 1 .. Len(c) : i < j => c[i].offset_id < c[j].offset_id}

Unused == <<>>

---------------------------------------------------------------------------
(* The log overlay: MetadataLogReader::new and its three lookups *)

StoredValues == {Bool(TRUE), IntOf(0), IntOf(1), Float(0), Str(StrA)}

\* records that differ in the operation and in either the metadata under
\* key "k" or the document
OverlayRecords ==
    {LogRecord(id, op, UserIdOf(id), OneKey("k", v), NoneOpt) :
        id \in OffsetIds, op \in {"UpdateExisting", "DeleteExisting"}, v \in StoredValues}
    \cup
    {LogRecord(id, op, UserIdOf(id), EmptyMap, Some(d)) :
        id \in OffsetIds, op \in {"AddNew", "DeleteExisting"}, d \in {StrA, StrAB}}

LookupValues == {Bool(FALSE), Bool(TRUE), IntOf(0), IntOf(1), Float(0), Str(StrA)}

InitOverlay ==
    /\ pc = "logs"
    /\ logs \in Chunks(OverlayRecords)
    /\ segment = Unused
    /\ query_ids = NoneOpt
    /\ where_clause = NoneOpt
    /\ reader = EmptyReader
    /\ locals = Unused
    /\ output = Unused
    /\ failed = {}
    /\ args = Unused

New ==
    /\ pc = "logs"
    /\ reader' = MetadataLogReader_new(logs)
    /\ pc' = "reader"
    /\ UNCHANGED <<logs, segment, query_ids, where_clause, locals, output, failed, args>>

Get ==
    /\ pc = "reader"
    /\ \E key \in {"k", "j"}, val \in LookupValues, op \in ProviderOperators :
        /\ key = "j" => val = IntOf(0) /\ op \in {"Equal", "GreaterThan"}
        /\ args' = Call(key, val, op)
        /\ output' = MetadataLogReader_get(reader, key, val, op)
    /\ pc' = "get"
    /\ UNCHANGED <<logs, segment, query_ids, where_clause, reader, locals, failed>>

FilterByDocument ==
    /\ pc = "reader"
    /\ \E query \in {<<>>, StrA, StrB, StrAB} :
        /\ args' = query
        /\ output' = filter_by_document(from_metadata_log_reader(reader), query)
    /\ pc' = "filter_by_document"
    /\ UNCHANGED <<logs, segment, query_ids, where_clause, reader, locals, failed>>

SearchUserIds ==
    /\ pc = "reader"
    /\ \E user_ids \in SeqsUpTo(UserIds, 2) :
        /\ args' = user_ids
        /\ output' = search_user_ids(reader, user_ids)
    /\ pc' = "search_user_ids"
    /\ UNCHANGED <<logs, segment, query_ids, where_clause, reader, locals, failed>>

NextOverlay == New \/ Get \/ FilterByDocument \/ SearchUserIds

SpecOverlay == InitOverlay /\ [][NextOverlay]_vars

---------------------------------------------------------------------------
(* The signed-bitmap combinators on two operands, as WhereChildren::eval   *)
(* folds them over two child evaluations                                   *)

InitAlgebra ==
    /\ pc = "operands"
    /\ args \in SignedRoaringBitmap \X SignedRoaringBitmap
    /\ logs = <<>>
    /\ segment = Unused
    /\ query_ids = NoneOpt
    /\ where_clause = NoneOpt
    /\ reader = EmptyReader
    /\ locals = Unused
    /\ output = Unused
    /\ failed = {}

FoldAnd ==
    /\ pc = "operands"
    /\ output' = Children_fold("And", args)
    /\ pc' = "And"
    /\ UNCHANGED <<logs, segment, query_ids, where_clause, reader, locals, failed, args>>

FoldOr ==
    /\ pc = "operands"
    /\ output' = Children_fold("Or", args)
    /\ pc' = "Or"
    /\ UNCHANGED <<logs, segment, query_ids, where_clause, reader, locals, failed, args>>

NextAlgebra == FoldAnd \/ FoldOr

SpecAlgebra == InitAlgebra /\ [][NextAlgebra]_vars

---------------------------------------------------------------------------
(* The on-disk segment of a run *)

\* what the segment holds of record id: an integer under key "k", a document
DiskValue(id) == IntOf(id % 2)
DiskDocument(id) == IF id % 2 = 0 THEN StrA ELSE StrAB

\* the on-disk index of the integers under "k" of the records ids
IntIndex(ids) ==
    IF ids = {} THEN EmptyMap
    ELSE OneKey("k", [kw \in {IndexKey(DiskValue(i)) : i \in ids} |->
                        {i \in ids : IndexKey(DiskValue(i)) = kw}])

\* a segment that was never written: no record reader, no index reader
UninitializedSegment ==
    [record_segment_reader |-> NoneOpt,
     metadata_segment_reader |->
        [metadata_index_reader |-> [t \in MetadataValueTypes |-> NoneOpt],
         full_text_index_reader |-> NoneOpt]]

\* a segment holding the records ids, each under its first user id; it has
\* indexed no string
DiskSegment(ids) ==
    [record_segment_reader |-> Some([u \in {UserIdOf(i) : i \in ids} |->
                                        CHOOSE i \in ids : UserIdOf(i) = u]),
     metadata_segment_reader |->
        [metadata_index_reader |->
            [t \in MetadataValueTypes |->
                IF t = "Int" THEN Some(IntIndex(ids))
                ELSE IF t = "Str" THEN NoneOpt
                ELSE Some(EmptyMap)],
         full_text_index_reader |-> Some([i \in ids |-> DiskDocument(i)])]]

\* offset ids are dense: a segment holds the records 0 .. n - 1
Segments ==
    {UninitializedSegment} \cup {DiskSegment(0 .. (n - 1)) : n \in 0 .. (MaxOffsetId + 1)}

---------------------------------------------------------------------------
(* FilterOperator::run, one step per collaborator awaited *)

\* RecordSegmentReader::get_offset_id_for_user_id; failing are the user ids
\* whose lookup fails
get_offset_id_for_user_id(record_reader, user_id, failing) ==
    IF user_id \in failing THEN Err("Failure")
    ELSE IF user_id \in DOMAIN record_reader THEN Ok(record_reader[user_id])
    ELSE Err("NotFound")

\* the allow-list resolved against the log
user_allowed_log_offset_ids(r, ids) ==
    IF IsSome(ids) THEN Include(search_user_ids(r, Unwrap(ids))) ELSE full

\* the allow-list resolved against the record segment
user_allowed_compact_offset_ids(record_segment_reader, ids, failing) ==
    IF IsSome(ids)
    THEN IF IsSome(record_segment_reader)
         THEN Include({get_offset_id_for_user_id(
                           Unwrap(record_segment_reader), Unwrap(ids)[i], failing).val :
                        i \in {j \in 1 .. Len(Unwrap(ids)) :
                                 IsOk(get_offset_id_for_user_id(
                                     Unwrap(record_segment_reader), Unwrap(ids)[j],
                                     failing))}})
         ELSE full
    ELSE full

\* the offset ids of the log: the clause's evaluation, if any, and the allow-list
log_offset_ids(clause_eval, user_allowed) ==
    IF IsSome(clause_eval) THEN BitAnd(Unwrap(clause_eval), user_allowed)
    ELSE user_allowed

\* the on-disk result is not reconciled with the log
compact_offset_ids_unreconciled(clause_eval, user_allowed, updated_offset_ids) ==
    IF IsSome(clause_eval) THEN BitAnd(Unwrap(clause_eval), user_allowed)
    ELSE user_allowed

\* the offset ids of the metadata segment: always without the ids the log touched
compact_offset_ids(clause_eval, user_allowed, updated_offset_ids) ==
    IF IsSome(clause_eval)
    THEN BitAnd(BitAnd(Unwrap(clause_eval), user_allowed), Exclude(updated_offset_ids))
    ELSE BitAnd(user_allowed, Exclude(updated_offset_ids))

FilterOutput(l, c) == [log_offset_ids |-> l, compact_offset_ids |-> c]

\* the records of a run's log: record id keeps the user id it was written under
RunRecords ==
    {LogRecord(id, op, UserIdOf(id), OneKey("k", IntOf(0)), Some(StrA)) :
        id \in OffsetIds, op \in MaterializedLogOperations}

AllowLists ==
    {NoneOpt, Some(<<>>), Some(<<UserIdOf(0)>>), Some(<<UserIdOf(1)>>),
     Some(<<UserIdOf(0), UserIdOf(1)>>), Some(<<UserIdOf(1), UserIdOf(1)>>)}

RunClauses ==
    {NoneOpt,
     Some(Primitive("k", "Equal", IntOf(0))),
     Some(Primitive("k", "NotEqual", IntOf(0))),
     Some(DocumentComparison("NotContains", StrAB)),
     Some(Children("And", <<>>)),
     Some(Children("Or", <<Primitive("k", "GreaterThan", IntOf(0)),
                           DocumentComparison("Contains", StrB)>>))}

\* the on-disk readers a lookup can fail at
Readers == {"Int", "FullText"}

Init ==
    /\ pc = "record_segment_reader"
    /\ logs \in OrderedChunks(RunRecords)
    /\ segment \in Segments
    /\ query_ids \in AllowLists
    /\ where_clause \in RunClauses
    /\ reader = EmptyReader
    /\ locals = Unused
    /\ output = Unused
    /\ failed = {}
    /\ args = Unused

Fail(collaborator, error) ==
    /\ failed' = failed \cup {collaborator}
    /\ output' = Err(error)
    /\ pc' = "error"

\* input.segments.record_segment_reader().await?
RecordSegmentReader ==
    /\ pc = "record_segment_reader"
    /\ \/ /\ Fail("record_segment_reader", "FetchSegment")
          /\ UNCHANGED <<reader, locals>>
       \/ /\ pc' = "materialize"
          /\ UNCHANGED <<reader, locals, output, failed>>
    /\ UNCHANGED <<logs, segment, query_ids, where_clause, args>>

\* materializer.materialize().await?, then MetadataLogReader::new
Materialize ==
    /\ pc = "materialize"
    /\ \/ /\ Fail("materialize", "LogMaterializer")
          /\ UNCHANGED <<reader, locals>>
       \/ /\ reader' = MetadataLogReader_new(logs)
          /\ pc' = "metadata_segment_reader"
          /\ UNCHANGED <<locals, output, failed>>
    /\ UNCHANGED <<logs, segment, query_ids, where_clause, args>>

\* input.segments.metadata_segment_reader().await?
MetadataSegmentReader ==
    /\ pc = "metadata_segment_reader"
    /\ \/ /\ Fail("metadata_segment_reader", "FetchSegment")
          /\ UNCHANGED <<reader, locals>>
       \/ /\ pc' = "user_allowed"
          /\ UNCHANGED <<reader, locals, output, failed>>
    /\ UNCHANGED <<logs, segment, query_ids, where_clause, args>>

\* the offset ids corresponding to the user ids
UserAllowed ==
    /\ pc = "user_allowed"
    /\ \E failing \in SUBSET {UserIdOf(0), UserIdOf(1)} :
        LET called == IF IsSome(query_ids) /\ IsSome(segment.record_segment_reader)
                      THEN {Unwrap(query_ids)[i] : i \in 1 .. Len(Unwrap(query_ids))}
                      ELSE {}
        IN  /\ failing \subseteq called
            /\ locals' =
                [log |-> user_allowed_log_offset_ids(reader, query_ids),
                 compact |-> user_allowed_compact_offset_ids(
                                 segment.record_segment_reader, query_ids, failing)]
            /\ failed' = IF failing = {} THEN failed
                         ELSE failed \cup {"get_offset_id_for_user_id"}
    /\ pc' = "log"
    /\ UNCHANGED <<logs, segment, query_ids, where_clause, reader, output, args>>

\* the where clause against the log
LogEval ==
    /\ pc = "log"
    /\ LET e == IF IsSome(where_clause)
                THEN Where_eval(from_metadata_log_reader(reader), Unwrap(where_clause)).res
                ELSE Ok(full)
       IN  IF IsOk(e)
           THEN /\ locals' = [log |-> log_offset_ids(
                                         IF IsSome(where_clause) THEN Some(e.val)
                                         ELSE NoneOpt,
                                         locals.log),
                              compact |-> locals.compact]
                /\ pc' = "compact"
                /\ UNCHANGED <<output, failed>>
           ELSE /\ output' = e
                /\ pc' = "error"
                /\ UNCHANGED <<locals, failed>>
    /\ UNCHANGED <<logs, segment, query_ids, where_clause, reader, args>>

\* the where clause against the metadata segment, and the result
CompactEval ==
    /\ pc = "compact"
    /\ \E faults \in SUBSET Readers :
        LET provider == from_metadata_segment_reader(segment.metadata_segment_reader,
                                                     faults)
            e == IF IsSome(where_clause)
                 THEN Where_eval(provider, Unwrap(where_clause)).res
                 ELSE Ok(full)
        IN  IF IsOk(e)
            THEN /\ output' = Ok(FilterOutput(
                        locals.log,
                        compact_offset_ids(
                            IF IsSome(where_clause) THEN Some(e.val) ELSE NoneOpt,
                            locals.compact, reader.updated_offset_ids)))
                 /\ pc' = "done"
                 /\ UNCHANGED failed
            ELSE /\ output' = e
                 /\ pc' = "error"
                 /\ failed' = failed \cup {"metadata_index"}
    /\ UNCHANGED <<logs, segment, query_ids, where_clause, reader, locals, args>>

Next ==
    \/ RecordSegmentReader
    \/ Materialize
    \/ MetadataSegmentReader
    \/ UserAllowed
    \/ LogEval
    \/ CompactEval

Spec == Init /\ [][Next]_vars

---------------------------------------------------------------------------
(* Properties of FilterOperator::run, checked under Spec *)

\* MetadataLogReader::new has run
ReaderBuilt == pc \in {"metadata_segment_reader", "user_allowed", "log", "compact", "done"}

LogRecords == {logs[i] : i \in 1 .. Len(logs)}

\* the ids of the records of the log that are not deleted and whose user id is listed
LiveLogIds(user_ids) ==
    {log.offset_id : log \in
        {l \in LogRecords :
            /\ l.final_operation # "DeleteExisting"
            /\ \E i \in 1 .. Len(user_ids) : user_ids[i] = l.user_id}}

\* the ids the record reader, if there is one, maps the listed user ids to
DiskIds(user_ids) ==
    IF IsSome(segment.record_segment_reader)
    THEN LET m == Unwrap(segment.record_segment_reader)
         IN  {m[u] : u \in {user_ids[i] : i \in 1 .. Len(user_ids)} \cap DOMAIN m}
    ELSE {}

\* C1: whenever run succeeds, no offset id of the touched set
\* (updated_offset_ids) is a member of the disk-scoped result
\* compact_offset_ids, whatever the where-clause and the allow-list are and
\* whether the result is an Include or an Exclude bitmap.
C1_Reconciliation ==
    pc = "done" =>
        \A x \in reader.updated_offset_ids :
            ~Member(x, output.val.compact_offset_ids)

\* a run with a where-clause and an allow-list that resolves, on disk, to an
\* id the log touched, and whose disk-scoped result still holds an id
C1_Witness ==
    /\ pc = "done"
    /\ IsSome(where_clause)
    /\ IsSome(query_ids)
    /\ locals.compact.kind = "Include"
    /\ locals.compact.set \cap reader.updated_offset_ids # {}
    /\ output.val.compact_offset_ids.kind = "Include"
    /\ output.val.compact_offset_ids.set # {}

\* the offset ids of the records of the log whose final operation is in ops
\* are in the touched set once the reader is built, and are no members of the
\* disk-scoped result of a run that succeeds
TouchedAndSuppressed(ops) ==
    \A log \in LogRecords :
        log.final_operation \in ops =>
            /\ ReaderBuilt => log.offset_id \in reader.updated_offset_ids
            /\ pc = "done" => ~Member(log.offset_id, output.val.compact_offset_ids)

C3_FailureIsReturned ==
    /\ pc = "done" => failed = {}
    /\ failed # {} /\ pc \in {"done", "error"} => ~IsOk(output)

\* C8: with no where-clause run returns the allow-list result directly: with
\* no allow-list, log-scoped full() and disk-scoped Exclude(touched); with an
\* allow-list, log-scoped Include(L) and disk-scoped Include(D minus touched),
\* both Include bitmaps.  Stated of the runs in which no collaborator failed.
C8_AllowListOnly ==
    pc = "done" /\ ~IsSome(where_clause) /\ failed = {} =>
        IF IsSome(query_ids)
        THEN output.val =
                FilterOutput(
                    Include(LiveLogIds(Unwrap(query_ids))),
                    Include(DiskIds(Unwrap(query_ids)) \ reader.updated_offset_ids))
        ELSE output.val = FilterOutput(full, Exclude(reader.updated_offset_ids))

---------------------------------------------------------------------------
(* Properties of the log overlay, checked under SpecOverlay *)

\* w op v in the natural order of the one variant of w and v
HoldsInVariant(w, op, v) ==
    /\ w.type = v.type
    /\ CASE op = "Equal" -> w = v
         [] op = "GreaterThan" -> SameTypeLess(v, w)
         [] op = "GreaterThanOrEqual" -> w = v \/ SameTypeLess(v, w)
         [] op = "LessThan" -> SameTypeLess(w, v)
         [] op = "LessThanOrEqual" -> w = v \/ SameTypeLess(w, v)

\* the non-deleted records whose merged metadata holds, under key, a value
\* of the variant of v that is in relation op to v
TypedMatches(key, v, op) ==
    {log.offset_id : log \in
        {l \in LogRecords :
            /\ l.final_operation # "DeleteExisting"
            /\ key \in DOMAIN l.metadata
            /\ HoldsInVariant(l.metadata[key], op, v)}}

\* C9: MetadataLogReader::get(key, v, op) returns exactly the offset ids of
\* the non-deleted records whose merged metadata holds under key a value w
\* of the same variant as v with w op v in the natural order of that
\* variant; no id whose stored value is of another variant is returned.
C9_GetIsExactAndTyped ==
    pc = "get" => output = Ok(TypedMatches(args.key, args.val, args.op))

DeletedRecords == {l \in LogRecords : l.final_operation = "DeleteExisting"}

\* the ids the index of a reader can answer with
IndexedIds(r) ==
    UNION {UNION {r.compact_metadata[k][w] : w \in DOMAIN r.compact_metadata[k]} :
             k \in DOMAIN r.compact_metadata}
    \cup DOMAIN r.document
    \cup {r.user_id_to_offset_id[u] : u \in DOMAIN r.user_id_to_offset_id}

\* C10: the offset id of a record whose final operation is DeleteExisting is
\* never returned by the overlay's metadata lookup, by its document
\* containment lookup or by its user-id lookup; such a record contributes
\* only to the touched set.
C10_DeletedNeverLookedUp ==
    \A log \in DeletedRecords :
        /\ pc \in {"get", "filter_by_document"} => log.offset_id \notin output.val
        /\ pc = "search_user_ids" => log.offset_id \notin output
        /\ pc # "logs" =>
            /\ log.offset_id \in reader.updated_offset_ids
            /\ log.offset_id \notin IndexedIds(reader)

\* a lookup that a deleted record's metadata satisfies and that is answered
\* with the id of a live record only
C10_Witness ==
    /\ pc = "get"
    /\ \E log \in DeletedRecords :
        /\ args.key \in DOMAIN log.metadata
        /\ HoldsInVariant(log.metadata[args.key], args.op, args.val)
    /\ output.val # {}

---------------------------------------------------------------------------
(* The evaluation of a where-clause against one provider: a log over an    *)
(* unwritten segment, or a written segment under an empty log              *)

EvalRecords ==
    {LogRecord(id, "UpdateExisting", UserIdOf(id), OneKey("k", IntOf(n)),
               Some(IF n = 0 THEN StrA ELSE StrAB)) :
        id \in OffsetIds, n \in {0, 1}}

ComparisonTrees ==
    {Primitive("k", op, IntOf(n)) : op \in PrimitiveOperators, n \in {0, 1}}
    \cup {Primitive("j", "NotEqual", IntOf(0)), Primitive("k", "NotEqual", Str(StrA))}

SetTrees ==
    {SetComparison("k", op, vals) :
        op \in {"In", "NotIn"}, vals \in SeqsUpTo({IntOf(0), IntOf(1)}, MaxListLen)}
    \cup {SetComparison("k", op, <<Str(StrA)>>) : op \in {"In", "NotIn"}}

DocumentTrees ==
    {DocumentComparison(op, d) : op \in {"Contains", "NotContains"}, d \in {StrA, StrB}}

\* the children of the composition nodes
ChildPool ==
    {Primitive("k", "Equal", IntOf(0)),
     DocumentComparison("NotContains", StrAB),
     Children("Or", <<Primitive("k", "NotEqual", IntOf(1)),
                      DocumentComparison("Contains", StrB)>>)}

ChildrenTrees ==
    {Children(op, cs) : op \in {"And", "Or"}, cs \in SeqsUpTo(ChildPool, MaxChildren)}

EvalTrees == ComparisonTrees \cup SetTrees \cup DocumentTrees \cup ChildrenTrees

InitEval ==
    /\ pc = "where"
    /\ \/ /\ logs \in OrderedChunks(EvalRecords)
          /\ segment = UninitializedSegment
       \/ /\ logs = <<>>
          /\ segment \in Segments
    /\ query_ids = NoneOpt
    /\ where_clause \in {Some(w) : w \in EvalTrees}
    /\ reader = MetadataLogReader_new(logs)
    /\ locals = Unused
    /\ output = Unused
    /\ failed = {}
    /\ args = Unused

\* clause.eval(&log_metadata_provider)
EvalLog ==
    /\ pc = "where"
    /\ args' = from_metadata_log_reader(reader)
    /\ output' = Where_eval(args', Unwrap(where_clause))
    /\ pc' = "evaluated"
    /\ UNCHANGED <<logs, segment, query_ids, where_clause, reader, locals, failed>>

\* clause.eval(&compact_metadata_provider), with the lookups of some reader failing
EvalCompact ==
    /\ pc = "where"
    /\ \E faults \in {{}, {"Int"}, {"FullText"}} :
        args' = from_metadata_segment_reader(segment.metadata_segment_reader, faults)
    /\ output' = Where_eval(args', Unwrap(where_clause))
    /\ pc' = "evaluated"
    /\ UNCHANGED <<logs, segment, query_ids, where_clause, reader, locals, failed>>

NextEval == EvalLog \/ EvalCompact

SpecEval == InitEval /\ [][NextEval]_vars

---------------------------------------------------------------------------
(* Properties of the signed-bitmap combinators, checked under SpecAlgebra *)

\* C4: the combinators are pointwise intersection and union: x is a member
\* of (a AND b) iff it is a member of a and of b, and of (a OR b) iff it is a
\* member of a or of b; a AND b is an Exclude bitmap only if both are, a OR b
\* an Include bitmap only if both are, which with the members fixes the
\* result's set as the table gives it.
C4_PointwiseAlgebra ==
    LET a == args[1]
        b == args[2]
    IN  /\ pc = "And" =>
            /\ \A x \in OffsetIds : Member(x, output) <=> Member(x, a) /\ Member(x, b)
            /\ output.kind = "Exclude" <=> a.kind = "Exclude" /\ b.kind = "Exclude"
            /\ a.kind = "Include" /\ b.kind = "Exclude" => output = Include(a.set \ b.set)
        /\ pc = "Or" =>
            /\ \A x \in OffsetIds : Member(x, output) <=> Member(x, a) \/ Member(x, b)
            /\ output.kind = "Include" <=> a.kind = "Include" /\ b.kind = "Include"
            /\ a.kind = "Exclude" /\ b.kind = "Exclude" => output = Exclude(a.set \cap b.set)

\* Include(A) AND Exclude(B) with A and B overlapping and neither within the other
C4_Witness ==
    /\ pc = "And"
    /\ args[1].kind = "Include"
    /\ args[2].kind = "Exclude"
    /\ args[1].set \cap args[2].set # {}
    /\ args[1].set \ args[2].set # {}
    /\ output = Include(args[1].set \ args[2].set)

---------------------------------------------------------------------------
(* Properties of the evaluator, checked under SpecEval *)

Clause == Unwrap(where_clause)

\* the sequence s in another order
Reorderings(s) ==
    {[i \in 1 .. Len(s) |-> s[p[i]]] :
        p \in {q \in [1 .. Len(s) -> 1 .. Len(s)] :
                 \A i, j \in 1 .. Len(s) : q[i] = q[j] => i = j}}

\* C5: the result of a boolean composition node does not depend on the order
\* of its children: when the evaluation succeeds, the node with its children
\* in any other order evaluates, against the same provider, to the
\* structurally same signed bitmap.
C5_ChildOrderIrrelevant ==
    pc = "evaluated" /\ Clause.node = "Children" /\ IsOk(output.res) =>
        \A cs \in Reorderings(Clause.children) :
            Where_eval(args, Children(Clause.op, cs)).res = output.res

\* a composition of three different children, of both kinds of bitmap, whose
\* result is neither empty() nor full()
C5_Witness ==
    /\ pc = "evaluated"
    /\ Clause.node = "Children"
    /\ Len(Clause.children) = 3
    /\ Cardinality({Clause.children[i] : i \in 1 .. 3}) = 3
    /\ IsOk(output.res)
    /\ output.res.val.set # {}
    /\ \E i, j \in 1 .. 3 :
        /\ IsOk(Where_eval(args, Clause.children[i]).res)
        /\ IsOk(Where_eval(args, Clause.children[j]).res)
        /\ Where_eval(args, Clause.children[i]).res.val.kind = "Include"
        /\ Where_eval(args, Clause.children[j]).res.val.kind = "Exclude"

\* C6: no provider lookup is made with operator NotEqual and no
\* unreachable!() is reached, for every tree and both providers; and K != V
\* evaluates to Exclude(X) exactly when K == V evaluates to Include(X)
\* against the same provider (and fails when K == V fails).
C6_InequalityAboveProvider ==
    pc = "evaluated" =>
        /\ output.res # Panic
        /\ \A c \in output.calls : c.op # "NotEqual"
        /\ Clause.node = "Primitive" /\ Clause.op = "NotEqual" =>
            LET eq == Where_eval(args, Primitive(Clause.key, "Equal", Clause.val)).res
            IN  IF IsOk(eq)
                THEN /\ eq.val.kind = "Include"
                     /\ output.res = Ok(Exclude(eq.val.set))
                ELSE output.res = eq

\* K != V evaluated where some id holds V under K
C6_Witness ==
    /\ pc = "evaluated"
    /\ Clause.node = "Primitive"
    /\ Clause.op = "NotEqual"
    /\ IsOk(output.res)
    /\ output.res.val.kind = "Exclude"
    /\ output.res.val.set # {}

\* the evaluation of key == v against the provider of the evaluation
EqualityOf(v) == Where_eval(args, Primitive(Clause.key, "Equal", v)).res

\* C7: key In [v1..vn] evaluates to the OR-fold from empty() of the results
\* of key == vi, which is Include(S) with S the union of the equality match
\* sets, and key NotIn [v1..vn] to the AND-fold from full() of their
\* complements, which is Exclude(S) with the same S; for the empty list and
\* for lists with repeated values too.
C7_SetMembership ==
    pc = "evaluated" /\ Clause.node = "Set" =>
        LET n == Len(Clause.vals)
            ok == \A i \in 1 .. n : IsOk(EqualityOf(Clause.vals[i]))
            S == UNION {EqualityOf(Clause.vals[i]).val.set : i \in 1 .. n}
        IN  IF ok
            THEN IF Clause.op = "In"
                 THEN /\ output.res = Ok(Include(S))
                      /\ output.res.val =
                            fold_bitor(empty,
                                 [i \in 1 .. n |-> EqualityOf(Clause.vals[i]).val])
                 ELSE /\ output.res = Ok(Exclude(S))
                      /\ output.res.val =
                            fold_bitand(full,
                                 [i \in 1 .. n |->
                                    Exclude(EqualityOf(Clause.vals[i]).val.set)])
            ELSE ~IsOk(output.res)

\* key NotIn [v1, v2] with two values that different ids hold
C7_Witness ==
    /\ pc = "evaluated"
    /\ Clause.node = "Set"
    /\ Clause.op = "NotIn"
    /\ Len(Clause.vals) = 2
    /\ IsOk(output.res)
    /\ EqualityOf(Clause.vals[1]).val.set # {}
    /\ EqualityOf(Clause.vals[2]).val.set # {}
    /\ EqualityOf(Clause.vals[1]).val.set # EqualityOf(Clause.vals[2]).val.set
    /\ output.res.val.kind = "Exclude"

---------------------------------------------------------------------------
(* The order of the chunk: MetadataLogReader::new and its lookups on the    *)
(* chunks, in every order, of records that carry both metadata and a       *)
(* document                                                                *)

\* created, updated and deleted records that share or differ in the value
\* under key "k" and in the document
OrderRecords ==
    {LogRecord(id, op, UserIdOf(id), OneKey("k", IntOf(n)),
               Some(IF n = 0 THEN StrA ELSE StrAB)) :
        id \in OffsetIds, op \in {"AddNew", "UpdateExisting", "DeleteExisting"},
        n \in {0, 1}}

InitOrder ==
    /\ pc = "logs"
    /\ logs \in Chunks(OrderRecords)
    /\ segment = Unused
    /\ query_ids = NoneOpt
    /\ where_clause = NoneOpt
    /\ reader = EmptyReader
    /\ locals = Unused
    /\ output = Unused
    /\ failed = {}
    /\ args = Unused

SpecOrder == InitOrder /\ [][NextOverlay]_vars

\* C11: MetadataLogReader::new builds the same index from a chunk and from
\* every permutation of it: the same touched set, the same user-id to
\* offset-id map, the same per-key per-value buckets and the same offset-id
\* to document map; so the metadata lookup, the document containment lookup
\* and the user-id lookup answer the same for every order of the chunk.
C11_OrderIndependent ==
    \A chunk \in Reorderings(logs) :
        LET r == MetadataLogReader_new(chunk)
        IN  /\ pc # "logs" =>
                /\ r.updated_offset_ids = reader.updated_offset_ids
                /\ r.user_id_to_offset_id = reader.user_id_to_offset_id
                /\ r.compact_metadata = reader.compact_metadata
                /\ r.document = reader.document
            /\ pc = "get" =>
                MetadataLogReader_get(r, args.key, args.val, args.op) = output
            /\ pc = "filter_by_document" =>
                filter_by_document(from_metadata_log_reader(r), args) = output
            /\ pc = "search_user_ids" => search_user_ids(r, args) = output

\* an index built from a chunk that is not in the order of its offset ids,
\* of two live records that share a bucket
C11_Witness ==
    /\ pc = "reader"
    /\ Len(logs) = 2
    /\ logs[1].offset_id > logs[2].offset_id
    /\ \E w \in DOMAIN MapGet(reader.compact_metadata, "k", EmptyMap) :
            reader.compact_metadata["k"][w] = {logs[1].offset_id, logs[2].offset_id}

---------------------------------------------------------------------------
(* The identities of the folds, checked under SpecEval *)

\* C12: against either provider, an And node with no children evaluates to
\* full() = Exclude({}) and an Or node with no children to empty() =
\* Include({}); an And node or an Or node with exactly one child evaluates to
\* what the child itself evaluates to, the structurally same signed bitmap
\* (or the child's error); and a AND full() = a and a OR empty() = a for
\* every signed bitmap a of either kind, with the identity on either side.
C12_FoldIdentities ==
    /\ pc = "evaluated" /\ Clause.node = "Children" =>
        /\ Len(Clause.children) = 0 =>
            output.res = Ok(IF Clause.op = "And" THEN Exclude({}) ELSE Include({}))
        /\ Len(Clause.children) = 1 =>
            output.res = Where_eval(args, Clause.children[1]).res
    /\ \A a \in SignedRoaringBitmap :
        /\ BitAnd(a, full) = a
        /\ BitAnd(full, a) = a
        /\ BitOr(a, empty) = a
        /\ BitOr(empty, a) = a

\* an Or node whose one child evaluates to an Exclude bitmap that is not full()
C12_Witness ==
    /\ pc = "evaluated"
    /\ Clause.node = "Children"
    /\ Clause.op = "Or"
    /\ Len(Clause.children) = 1
    /\ IsOk(output.res)
    /\ output.res.val.kind = "Exclude"
    /\ output.res.val.set # {}

---------------------------------------------------------------------------
(* The disk-backed provider on integers: a segment whose records were      *)
(* written with integers of the whole i64 range under key "k", and one     *)
(* lookup of MetadataProvider::filter_by_metadata                          *)

\* -1, 0, 1, 2^16 and 2^32
IndexedInts == {IntMinusOne, IntOf(0), IntOf(1), Int64(0, 1, 0), Int64(1, 0, 0)}

\* the on-disk u32 index of the integers written under "k": written[i] is
\* the integer of record i, kept under the u32 key made of it
WrittenIntIndex(written) ==
    IF DOMAIN written = {} THEN EmptyMap
    ELSE OneKey("k", [kw \in {IndexKey(written[i]) : i \in DOMAIN written} |->
                        {i \in DOMAIN written : IndexKey(written[i]) = kw}])

\* the segment of the records written
WrittenSegment(written) ==
    [record_segment_reader |-> Some([u \in {UserIdOf(i) : i \in DOMAIN written} |->
                                        CHOOSE i \in DOMAIN written : UserIdOf(i) = u]),
     metadata_segment_reader |->
        [metadata_index_reader |->
            [t \in MetadataValueTypes |->
                IF t = "Int" THEN Some(WrittenIntIndex(written))
                ELSE IF t = "Str" THEN NoneOpt
                ELSE Some(EmptyMap)],
         full_text_index_reader |-> Some([i \in DOMAIN written |-> DiskDocument(i)])]]

\* locals holds the integers the records 0 .. n - 1 were written with
InitIndex ==
    /\ pc = "segment"
    /\ locals \in UNION {[0 .. (n - 1) -> IndexedInts] : n \in 0 .. (MaxOffsetId + 1)}
    /\ \/ segment = WrittenSegment(locals)
       \/ locals = <<>> /\ segment = UninitializedSegment
    /\ logs = <<>>
    /\ query_ids = NoneOpt
    /\ where_clause = NoneOpt
    /\ reader = EmptyReader
    /\ output = Unused
    /\ failed = {}
    /\ args = Unused

\* compact_metadata_provider.filter_by_metadata(key, Int(v), op)
FilterByMetadata ==
    /\ pc = "segment"
    /\ \E key \in {"k", "j"}, val \in IndexedInts, op \in ProviderOperators,
          faults \in {{}, {"Int"}} :
        /\ args' = Call(key, val, op)
        /\ output' = filter_by_metadata(
                         from_metadata_segment_reader(segment.metadata_segment_reader,
                                                      faults),
                         key, val, op)
    /\ pc' = "filter_by_metadata"
    /\ UNCHANGED <<logs, segment, query_ids, where_clause, reader, locals, failed>>

NextIndex == FilterByMetadata

SpecIndex == InitIndex /\ [][NextIndex]_vars

\* the integer a u32 index key denotes, as an i64
U32AsInt(kw) == Int64(0, kw.val[1], kw.val[2])

\* the records written with, under key, an integer w with w op v
WrittenMatches(key, v, op) ==
    {i \in DOMAIN locals : key = "k" /\ HoldsInVariant(locals[i], op, v)}

\* C13: for every i64 v (negative values and values of 2^32 or more too) and
\* every operator of =, >, >=, <, <=, the disk-backed filter_by_metadata(key,
\* Int(v), op) sends the integer index a key that denotes v itself, no other
\* integer is sent as the same key, and the ids returned are those whose
\* stored integer w satisfies w op v in the natural order of the integers.
C13_IntegerKeyIsExact ==
    pc = "filter_by_metadata" /\ args.val.type = "Int" =>
        /\ U32AsInt(IndexKey(args.val)) = args.val
        /\ \A v \in IndexedInts : IndexKey(v) = IndexKey(args.val) => v = args.val
        /\ IsOk(output) => output.val = WrittenMatches(args.key, args.val, args.op)

===========================================================================
